---- MODULE Spec2Model ----
(***************************************************************************)
(* A model of src/app.py: the HuggingFace-space -> Gofile transfer         *)
(* service.  The orchestrator thread (main) lists the space, and for each  *)
(* file downloads it, uploads it, removes the local copy on success and    *)
(* sleeps; the uvicorn thread serves GET / and GET /uploads from the       *)
(* shared list successful_uploads.                                         *)
(*                                                                         *)
(* Strings that the code inspects (file names, local paths) are sequences  *)
(* of one-character strings, so that endswith, basename and join are       *)
(* computed as the code computes them.  Python's None is the empty         *)
(* sequence for a path and the string NoneVal for a JSON value.            *)
(***************************************************************************)
EXTENDS Integers, Sequences, FiniteSets, TLC

VARIABLES
    resp,               \* the listing API's answer to requests.get(url), line 30
    file_list,          \* main's file_list, line 205
    pc,                 \* position of the orchestrator thread in main
    index,              \* main's loop index (1-based), line 214
    local_path,         \* main's local_path, line 219 (<<>> is None)
    fs,                 \* local paths that exist under TEMP_DOWNLOAD_DIR
    successful_uploads, \* the shared in-memory ledger, line 16
    disk,               \* the file uploads_info.json
    srv_resp,           \* the server-list API's answer, line 82
    server,             \* upload_to_gofile's server, line 111
    upload_info,        \* upload_to_gofile's upload_info, line 142
    handle,             \* local path held open by files['file'][1] (<<>>: none)
    upload_ret,         \* value returned by the upload_to_gofile calls so far
    result,             \* upload_to_gofile's result, line 133
    uploads_at_call,    \* history: successful_uploads when the current call began
    clock,              \* seconds main has slept so far
    trace,              \* history: the calls main has made, in order
    http_out            \* the last response of the status endpoint thread

vars == <<resp, file_list, pc, index, local_path, fs, successful_uploads, disk,
          srv_resp, server, upload_info, handle, upload_ret, result,
          uploads_at_call, clock, trace, http_out>>

(***************************************************************************)
(* Bounds of the model.                                                    *)
(***************************************************************************)
MaxFiles == 2
MaxSiblings == 3
MaxServers == 3

(***************************************************************************)
(* Program constants.                                                      *)
(***************************************************************************)
TIMEOUT_BETWEEN_UPLOADS == 5

TEMP_DOWNLOAD_DIR ==
    <<".", "/", "t", "e", "m", "p", "_", "d", "o", "w", "n", "l", "o", "a", "d", "s">>

ExcludedSuffix == <<".", "g", "i", "t", "a", "t", "t", "r", "i", "b", "u", "t", "e", "s">>

FallbackServer == "store1"

NotAvailable == "No disponible"

NoneVal == "None"

(***************************************************************************)
(* Python string and dict primitives.                                      *)
(***************************************************************************)
\* str.endswith
EndsWith(s, suf) ==
    /\ Len(s) >= Len(suf)
    /\ SubSeq(s, Len(s) - Len(suf) + 1, Len(s)) = suf

\* the substring test  suf in s
Contains(s, sub) ==
    \E k \in 1..(Len(s) - Len(sub) + 1) : SubSeq(s, k, k + Len(sub) - 1) = sub

\* os.path.basename: what follows the last "/"
RECURSIVE Basename(_)
Basename(p) ==
    IF p = <<>> THEN <<>>
    ELSE IF p[Len(p)] = "/" THEN <<>>
    ELSE Append(Basename(SubSeq(p, 1, Len(p) - 1)), p[Len(p)])

\* os.path.join(a, b) for a relative b
PathJoin(a, b) == a \o <<"/">> \o b

\* dict.get(k, default)
DictGet(d, k, default) == IF k \in DOMAIN d THEN d[k] ELSE default

\* the characters of a string value, as one string
RECURSIVE Str(_)
Str(s) == IF s = <<>> THEN "" ELSE Head(s) \o Str(Tail(s))

Truthy(s) == s # <<>>

(***************************************************************************)
(* File names used as inputs.                                              *)
(***************************************************************************)
NameA == <<"a", ".", "t", "x", "t">>
NameB == <<"b", ".", "t", "x", "t">>
NameDirA == <<"d", "/">> \o NameA
NameGit == ExcludedSuffix
NameDirGit == <<"d", "/">> \o ExcludedSuffix
NameGitBak == ExcludedSuffix \o <<".", "b">>
NameNoDot == Tail(ExcludedSuffix)

(***************************************************************************)
(* get_file_list, lines 21-41.                                             *)
(***************************************************************************)
Returned(v) == [raised |-> FALSE, ret |-> v]
Raised == [raised |-> TRUE, ret |-> <<>>]

Sib(n) == [rfilename |-> n]
BadSib == [size |-> 0]

\* the comprehension's condition, line 35
KeepFile_substring(name) == ~Contains(name, ExcludedSuffix)

KeepFile(name) == ~EndsWith(name, ExcludedSuffix)

\* the comprehension of line 35; file['rfilename'] raises KeyError
FilterSiblings(siblings) ==
    IF \E i \in 1..Len(siblings) : "rfilename" \notin DOMAIN siblings[i]
    THEN Raised
    ELSE LET names == [i \in 1..Len(siblings) |-> siblings[i].rfilename]
         IN  Returned(SelectSeq(names, KeepFile))

\* the body of the try block, lines 30-38
get_file_list_try(r) ==
    IF r.kind = "exception" THEN Raised
    ELSE IF r.status_code = 200
         THEN IF r.json_ok THEN FilterSiblings(r.siblings) ELSE Raised
         ELSE Returned(<<>>)

get_file_list_noexcept(r) == get_file_list_try(r)

\* lines 29-41: the except clause turns every exception into []
get_file_list(r) ==
    LET t == get_file_list_try(r)
    IN  IF t.raised THEN Returned(<<>>) ELSE t

(***************************************************************************)
(* get_best_server, lines 75-100.                                          *)
(***************************************************************************)
\* max(servers, key=lambda x: x.get('score', 0)): the first maximal element
ScoreOf(s) == DictGet(s, "score", 0)

RECURSIVE PyMaxFrom_last(_, _, _)
PyMaxFrom_last(servers, best, i) ==
    IF i > Len(servers) THEN best
    ELSE IF ScoreOf(servers[i]) >= ScoreOf(best)
         THEN PyMaxFrom_last(servers, servers[i], i + 1)
         ELSE PyMaxFrom_last(servers, best, i + 1)

RECURSIVE PyMaxFrom(_, _, _)
PyMaxFrom(servers, best, i) ==
    IF i > Len(servers) THEN best
    ELSE IF ScoreOf(servers[i]) > ScoreOf(best)
         THEN PyMaxFrom(servers, servers[i], i + 1)
         ELSE PyMaxFrom(servers, best, i + 1)

PyMax_last(servers) == PyMaxFrom_last(servers, servers[1], 2)

PyMax(servers) == PyMaxFrom(servers, servers[1], 2)

\* the body of the try block, lines 82-97
get_best_server_try(r) ==
    IF r.kind = "exception" \/ ~r.http_ok \/ ~r.json_ok THEN Raised
    ELSE IF r.status = "ok" /\ r.servers # <<>>
         THEN LET server_name == DictGet(PyMax(r.servers), "name", "")
              IN  IF server_name # "" THEN [raised |-> FALSE, ret |-> server_name]
                  ELSE [raised |-> FALSE, ret |-> FallbackServer]
         ELSE [raised |-> FALSE, ret |-> FallbackServer]

get_best_server_noexcept(r) == get_best_server_try(r)

\* lines 81-100
get_best_server(r) ==
    LET t == get_best_server_try(r)
    IN  IF t.raised THEN [raised |-> FALSE, ret |-> FallbackServer] ELSE t

(***************************************************************************)
(* download_file, lines 43-73.  The outcome of the request and of the      *)
(* write is the environment's choice.                                      *)
(***************************************************************************)
DownloadOutcomes == {"ok", "request_error", "write_error", "makedirs_error"}

\* line 63
LocalFilename(file_path) == PathJoin(TEMP_DOWNLOAD_DIR, Basename(file_path))

\* the value returned, or the exception of line 52 that no try block covers
download_file(file_path, outcome) ==
    IF outcome = "makedirs_error" THEN Raised
    ELSE IF outcome = "ok" THEN Returned(LocalFilename(file_path))
    ELSE Returned(<<>>)

\* open(local_filename, 'wb') of line 65 creates the file before any chunk
\* is written
FsAfterDownload(files, file_path, outcome) ==
    IF outcome \in {"ok", "write_error"}
    THEN files \cup {LocalFilename(file_path)}
    ELSE files

(***************************************************************************)
(* upload_to_gofile, lines 102-168.                                        *)
(***************************************************************************)
DataKeys == {"parentFolder", "downloadPage", "guestToken"}

DataValue(k) ==
    IF k = "parentFolder" THEN "f1"
    ELSE IF k = "downloadPage" THEN "http://x/d1"
    ELSE "t1"

\* the data objects of the upload responses tried
UploadData ==
    { [k \in S |-> DataValue(k)] :
        S \in {{"parentFolder"}, {"downloadPage", "guestToken"}} }

\* open(local_path, 'rb'), line 116
OpenOutcomes == {"ok", "error"}

\* the answers of requests.post and response.json(), lines 129-133
UploadResponses ==
    {[kind |-> "exception"],
     [kind |-> "response", http_ok |-> FALSE],
     [kind |-> "response", http_ok |-> TRUE, json_ok |-> FALSE]}
    \cup {[kind |-> "response", http_ok |-> TRUE, json_ok |-> TRUE, result |-> res] :
            res \in {[status |-> "error"], [data |-> [parentFolder |-> "f1"]],
                     [status |-> "ok"]}
                    \cup {[status |-> "ok", data |-> d] : d \in UploadData}}

\* does the response reach line 135 with status 'ok'
UploadAccepted(r) ==
    /\ r.kind = "response"
    /\ r.http_ok
    /\ r.json_ok
    /\ DictGet(r.result, "status", NoneVal) = "ok"

Unset == "<unset>"

\* a record appended before its last field is assigned
BuildUploadInfo_partial(file_path, res) ==
    LET data == DictGet(res, "data", <<>>)
    IN  [file |-> Basename(file_path),
         folder_id |-> DictGet(data, "parentFolder", NoneVal),
         download_page |-> DictGet(data, "downloadPage", NotAvailable),
         guest_token |-> Unset]

\* a record that keeps the whole remote path
BuildUploadInfo_fullpath(file_path, res) ==
    LET data == DictGet(res, "data", <<>>)
    IN  [file |-> file_path,
         folder_id |-> DictGet(data, "parentFolder", NoneVal),
         download_page |-> DictGet(data, "downloadPage", NotAvailable),
         guest_token |-> DictGet(data, "guestToken", NotAvailable)]

\* lines 136-147
BuildUploadInfo(file_path, res) ==
    LET data == DictGet(res, "data", <<>>)
    IN  [file |-> Basename(file_path),
         folder_id |-> DictGet(data, "parentFolder", NoneVal),
         download_page |-> DictGet(data, "downloadPage", NotAvailable),
         guest_token |-> DictGet(data, "guestToken", NotAvailable)]

NoUploadInfo ==
    [file |-> <<>>, folder_id |-> NoneVal, download_page |-> NoneVal,
     guest_token |-> NoneVal]

\* json.dump(successful_uploads, f, indent=2), line 152
JsonValue(v) == IF v = NoneVal THEN "null" ELSE "\"" \o v \o "\""

JsonRecord(r) ==
    "{\"file\": \"" \o Str(r.file) \o "\", \"folder_id\": " \o JsonValue(r.folder_id)
    \o ", \"download_page\": " \o JsonValue(r.download_page)
    \o ", \"guest_token\": " \o JsonValue(r.guest_token) \o "}"

RECURSIVE JsonRecords(_)
JsonRecords(uploads) ==
    IF uploads = <<>> THEN ""
    ELSE IF Len(uploads) = 1 THEN JsonRecord(uploads[1])
    ELSE JsonRecord(Head(uploads)) \o ", " \o JsonRecords(Tail(uploads))

JsonDump(uploads) == "[" \o JsonRecords(uploads) \o "]"

NoFile == [exists |-> FALSE, content |-> ""]

\* open('uploads_info.json', 'w') and json.dump, lines 151-152: the whole
\* list is written over the old content; a failing open leaves the file as
\* it was, a failing dump leaves it truncated
PersistOutcomes == {"ok", "open_error", "dump_error"}

DiskAfterPersist_append(old, uploads, outcome) ==
    IF outcome = "ok"
    THEN [exists |-> TRUE, content |-> old.content \o JsonDump(uploads)]
    ELSE IF outcome = "dump_error" THEN [exists |-> TRUE, content |-> "["]
    ELSE old

DiskAfterPersist(old, uploads, outcome) ==
    IF outcome = "ok" THEN [exists |-> TRUE, content |-> JsonDump(uploads)]
    ELSE IF outcome = "dump_error" THEN [exists |-> TRUE, content |-> "["]
    ELSE old

(***************************************************************************)
(* cleanup, lines 170-180.                                                 *)
(***************************************************************************)
CleanupOutcomes == {"ok", "os_error"}

FsAfterCleanup_keep(files, path, outcome) == files

\* a cleanup that empties the download directory
FsAfterCleanup_all(files, path, outcome) ==
    IF outcome = "ok" THEN {} ELSE files

FsAfterCleanup(files, path, outcome) ==
    IF outcome = "ok" THEN files \ {path} ELSE files

(***************************************************************************)
(* The history of calls made by main.                                      *)
(***************************************************************************)
Event(op, i, ok) == [op |-> op, i |-> i, ok |-> ok, at |-> clock]

EventsOf(op) == SelectSeq(trace, LAMBDA e : e.op = op)

(***************************************************************************)
(* The answers of the two remote services that main is run against.        *)
(***************************************************************************)
RECURSIVE SeqsUpTo(_, _)
SeqsUpTo(S, n) ==
    IF n = 0 THEN {<<>>}
    ELSE LET shorter == SeqsUpTo(S, n - 1)
         IN  shorter \cup {Append(q, x) : q \in {t \in shorter : Len(t) = n - 1}, x \in S}

ListingOk(siblings) ==
    [kind |-> "response", status_code |-> 200, json_ok |-> TRUE, siblings |-> siblings]

ListingFailures ==
    {[kind |-> "exception"],
     [kind |-> "response", status_code |-> 404, json_ok |-> TRUE,
      siblings |-> <<Sib(NameA)>>],
     [kind |-> "response", status_code |-> 200, json_ok |-> FALSE, siblings |-> <<>>],
     ListingOk(<<Sib(NameA), BadSib>>)}

MainNames == {NameA, NameDirA, NameGit}

MainListings ==
    {ListingOk(q) : q \in SeqsUpTo({Sib(n) : n \in MainNames}, MaxFiles)}
    \cup ListingFailures

ServersOk(servers) ==
    [kind |-> "response", http_ok |-> TRUE, json_ok |-> TRUE, status |-> "ok",
     servers |-> servers]

ServerFailures ==
    {[kind |-> "exception"],
     [kind |-> "response", http_ok |-> FALSE],
     [kind |-> "response", http_ok |-> TRUE, json_ok |-> FALSE],
     [kind |-> "response", http_ok |-> TRUE, json_ok |-> TRUE, status |-> "error",
      servers |-> <<[name |-> "a", score |-> 5]>>],
     ServersOk(<<>>)}

MainServerResponses ==
    {[kind |-> "exception"],
     ServersOk(<<[name |-> "a", score |-> 5], [name |-> "b", score |-> 9]>>)}

NoResponse == [kind |-> "none"]

NoRequest == [path |-> ""]

(***************************************************************************)
(* The orchestrator thread: main, lines 195-248.                           *)
(***************************************************************************)
InitRun ==
    /\ file_list = <<>>
    /\ pc = "start"
    /\ index = 0
    /\ local_path = <<>>
    /\ fs = {}
    /\ successful_uploads = <<>>
    /\ disk \in {NoFile, [exists |-> TRUE, content |-> "[stale]"]}
    /\ srv_resp = NoResponse
    /\ server = ""
    /\ upload_info = NoUploadInfo
    /\ handle = <<>>
    /\ upload_ret = FALSE
    /\ result = <<>>
    /\ uploads_at_call = <<>>
    /\ clock = 0
    /\ trace = <<>>
    /\ http_out = NoRequest

Init ==
    /\ resp \in MainListings
    /\ InitRun

\* a loop that steps over the element after the current one
NextIteration_skip ==
    /\ index' = index + 2
    /\ pc' = IF index + 1 < Len(file_list) THEN "loop" ELSE "done"

\* a loop that ends at the first iteration that is cut short
NextIteration_abort ==
    /\ index' = index + 1
    /\ pc' = IF index < Len(file_list) /\ pc = "delay" THEN "loop" ELSE "done"

\* for index, file_path in enumerate(file_list, 1), line 214: the next
\* element, or the code after the loop
NextIteration ==
    /\ index' = index + 1
    /\ pc' = IF index < Len(file_list) THEN "loop" ELSE "done"

UploadLocals == <<srv_resp, server, upload_info, handle, upload_ret, result,
                  uploads_at_call>>

\* a listing whose empty result falls through to the loop and the summary
Listing_noreturn ==
    /\ pc = "start"
    /\ LET r == get_file_list(resp)
       IN  /\ file_list' = r.ret
           /\ IF r.raised THEN pc' = "crashed" /\ index' = index
              ELSE IF r.ret = <<>> THEN pc' = "done" /\ index' = index
              ELSE pc' = "loop" /\ index' = 1
    /\ UNCHANGED <<resp, local_path, fs, successful_uploads, disk, UploadLocals,
                   clock, trace, http_out>>

\* lines 205-211
Listing ==
    /\ pc = "start"
    /\ LET r == get_file_list(resp)
       IN  /\ file_list' = r.ret
           /\ IF r.raised THEN pc' = "crashed" /\ index' = index
              ELSE IF r.ret = <<>> THEN pc' = "returned" /\ index' = index
              ELSE pc' = "loop" /\ index' = 1
    /\ UNCHANGED <<resp, local_path, fs, successful_uploads, disk, UploadLocals,
                   clock, trace, http_out>>

\* a loop body without the handler of line 233: the exception ends main
Download_crash ==
    /\ pc = "loop"
    /\ \E outcome \in DownloadOutcomes :
         LET r == download_file(file_list[index], outcome)
         IN  /\ fs' = FsAfterDownload(fs, file_list[index], outcome)
             /\ trace' = Append(trace, Event("download", index,
                                             ~r.raised /\ Truthy(r.ret)))
             /\ IF r.raised
                THEN local_path' = local_path /\ pc' = "crashed" /\ index' = index
                ELSE /\ local_path' = r.ret
                     /\ IF Truthy(r.ret) THEN pc' = "upload" /\ index' = index
                        ELSE NextIteration
    /\ UNCHANGED <<resp, file_list, successful_uploads, disk, UploadLocals, clock,
                   http_out>>

\* lines 216-221, and the handler of line 233 for an exception of
\* download_file
Download ==
    /\ pc = "loop"
    /\ \E outcome \in DownloadOutcomes :
         LET r == download_file(file_list[index], outcome)
         IN  /\ fs' = FsAfterDownload(fs, file_list[index], outcome)
             /\ trace' = Append(trace, Event("download", index,
                                             ~r.raised /\ Truthy(r.ret)))
             /\ IF r.raised THEN local_path' = local_path /\ NextIteration
                ELSE /\ local_path' = r.ret
                     /\ IF Truthy(r.ret) THEN pc' = "upload" /\ index' = index
                        ELSE NextIteration
    /\ UNCHANGED <<resp, file_list, successful_uploads, disk, UploadLocals, clock,
                   http_out>>

\* upload_to_gofile, lines 111-112: the call begins with get_best_server(),
\* answered by one of the given responses
SelectServerFrom(responses) ==
    /\ pc = "upload"
    /\ \E sr \in responses :
         LET r == get_best_server(sr)
         IN  /\ srv_resp' = sr
             /\ trace' = Append(trace, Event("select", index, ~r.raised))
             /\ uploads_at_call' = successful_uploads
             /\ IF r.raised THEN server' = server /\ NextIteration
                ELSE server' = r.ret /\ pc' = "post" /\ index' = index
    /\ UNCHANGED <<resp, file_list, local_path, fs, successful_uploads, disk,
                   upload_info, handle, upload_ret, result, clock, http_out>>

SelectServer == SelectServerFrom(MainServerResponses)

\* a call that reports success whatever happened
UploadReturns_true(value) ==
    /\ upload_ret' = TRUE
    /\ handle' = <<>>
    /\ srv_resp' = NoResponse
    /\ server' = ""
    /\ upload_info' = NoUploadInfo
    /\ result' = <<>>
    /\ trace' = Append(trace, Event("upload", index, value))
    /\ pc' = "after_upload"

\* a return that leaves the file open
UploadReturns_leak(value) ==
    /\ upload_ret' = value
    /\ handle' = handle
    /\ srv_resp' = NoResponse
    /\ server' = ""
    /\ upload_info' = NoUploadInfo
    /\ result' = <<>>
    /\ trace' = Append(trace, Event("upload", index, value))
    /\ pc' = "after_upload"

\* upload_to_gofile returns: the finally clause of lines 165-168 closes the
\* handle, and the locals of the call are gone
UploadReturns(value) ==
    /\ upload_ret' = value
    /\ handle' = <<>>
    /\ srv_resp' = NoResponse
    /\ server' = ""
    /\ upload_info' = NoUploadInfo
    /\ result' = <<>>
    /\ trace' = Append(trace, Event("upload", index, value))
    /\ pc' = "after_upload"

\* upload_to_gofile, lines 114-116: the local file is opened; when open
\* raises, files is not bound and the finally clause has nothing to close
OpenFile ==
    /\ pc = "post"
    /\ \E outcome \in OpenOutcomes :
         IF outcome = "ok"
         THEN /\ handle' = local_path
              /\ pc' = "request"
              /\ UNCHANGED <<srv_resp, server, upload_info, upload_ret, result, trace>>
         ELSE UploadReturns(FALSE)
    /\ UNCHANGED <<resp, file_list, index, local_path, fs, successful_uploads, disk,
                   uploads_at_call, clock, http_out>>

\* upload_to_gofile, lines 118-147 and 159-164
Post ==
    /\ pc = "request"
    /\ \E r \in UploadResponses :
         IF UploadAccepted(r)
         THEN /\ result' = r.result
              /\ upload_info' = BuildUploadInfo(file_list[index], r.result)
              /\ pc' = "append"
              /\ UNCHANGED <<srv_resp, server, handle, upload_ret, trace>>
         ELSE UploadReturns(FALSE)
    /\ UNCHANGED <<resp, file_list, index, local_path, fs, successful_uploads, disk,
                   uploads_at_call, clock, http_out>>

\* a record put at the head of the list
UploadAppend_front ==
    /\ pc = "append"
    /\ successful_uploads' = <<upload_info>> \o successful_uploads
    /\ pc' = "persist"
    /\ UNCHANGED <<resp, file_list, index, local_path, fs, disk, UploadLocals, clock,
                   trace, http_out>>

\* line 148
UploadAppend ==
    /\ pc = "append"
    /\ successful_uploads' = Append(successful_uploads, upload_info)
    /\ pc' = "persist"
    /\ UNCHANGED <<resp, file_list, index, local_path, fs, disk, UploadLocals, clock,
                   trace, http_out>>

\* lines 151-158, and lines 162-164 when the write raises
UploadPersist ==
    /\ pc = "persist"
    /\ \E outcome \in PersistOutcomes :
         /\ disk' = DiskAfterPersist(disk, successful_uploads, outcome)
         /\ UploadReturns(outcome = "ok")
    /\ UNCHANGED <<resp, file_list, index, local_path, fs, successful_uploads,
                   uploads_at_call, clock, http_out>>

\* lines 223-225
Cleanup ==
    /\ pc = "after_upload"
    /\ upload_ret
    /\ \E outcome \in CleanupOutcomes :
         /\ fs' = FsAfterCleanup(fs, local_path, outcome)
         /\ trace' = Append(trace, Event("cleanup", index, outcome = "ok"))
    /\ pc' = "delay"
    /\ UNCHANGED <<resp, file_list, index, local_path, successful_uploads, disk,
                   UploadLocals, clock, http_out>>

\* lines 226-227
UploadFailed ==
    /\ pc = "after_upload"
    /\ ~upload_ret
    /\ pc' = "delay"
    /\ UNCHANGED <<resp, file_list, index, local_path, fs, successful_uploads, disk,
                   UploadLocals, clock, trace, http_out>>

\* a delay that is also made after the last file
Delay_always ==
    /\ pc = "delay"
    /\ trace' = Append(trace, Event("sleep", index, TRUE))
    /\ clock' = clock + TIMEOUT_BETWEEN_UPLOADS
    /\ NextIteration
    /\ UNCHANGED <<resp, file_list, local_path, fs, successful_uploads, disk,
                   UploadLocals, http_out>>

\* a delay that is made only after an upload that succeeded
Delay_onsuccess ==
    /\ pc = "delay"
    /\ IF index < Len(file_list) /\ upload_ret
       THEN /\ trace' = Append(trace, Event("sleep", index, TRUE))
            /\ clock' = clock + TIMEOUT_BETWEEN_UPLOADS
       ELSE UNCHANGED <<trace, clock>>
    /\ NextIteration
    /\ UNCHANGED <<resp, file_list, local_path, fs, successful_uploads, disk,
                   UploadLocals, http_out>>

\* lines 229-232, then the next element of the loop
Delay ==
    /\ pc = "delay"
    /\ IF index < Len(file_list)
       THEN /\ trace' = Append(trace, Event("sleep", index, TRUE))
            /\ clock' = clock + TIMEOUT_BETWEEN_UPLOADS
       ELSE UNCHANGED <<trace, clock>>
    /\ NextIteration
    /\ UNCHANGED <<resp, file_list, local_path, fs, successful_uploads, disk,
                   UploadLocals, http_out>>

(***************************************************************************)
(* The status endpoint thread, lines 182-193.                              *)
(***************************************************************************)
\* lines 186-188
read_root ==
    /\ http_out' = [path |-> "/", message |-> "HuggingFace to Gofile Transfer Service"]
    /\ UNCHANGED <<resp, file_list, pc, index, local_path, fs, successful_uploads,
                   disk, UploadLocals, clock, trace>>

\* lines 190-193
get_uploads ==
    /\ http_out' = [path |-> "/uploads", uploads |-> successful_uploads]
    /\ UNCHANGED <<resp, file_list, pc, index, local_path, fs, successful_uploads,
                   disk, UploadLocals, clock, trace>>

Next ==
    \/ Listing
    \/ Download
    \/ SelectServer
    \/ OpenFile
    \/ Post
    \/ UploadAppend
    \/ UploadPersist
    \/ Cleanup
    \/ UploadFailed
    \/ Delay
    \/ read_root
    \/ get_uploads

Spec == Init /\ [][Next]_vars

\* the steps of the orchestrator thread.  main is sequential code: as long
\* as the call it is blocked in returns, its next step is taken
MainNext ==
    \/ Listing
    \/ Download
    \/ SelectServer
    \/ OpenFile
    \/ Post
    \/ UploadAppend
    \/ UploadPersist
    \/ Cleanup
    \/ UploadFailed
    \/ Delay

SpecFair == Spec /\ WF_vars(MainNext)

(***************************************************************************)
(* The orchestrator thread on its own, while no request reaches the status *)
(* endpoint (whose handlers write none of the variables main reads), run   *)
(* against listings that also hold a second basename.                      *)
(***************************************************************************)
BatchNames == MainNames \cup {NameB}

BatchListings ==
    {ListingOk(q) : q \in SeqsUpTo({Sib(n) : n \in BatchNames}, MaxFiles)}
    \cup ListingFailures

InitBatch ==
    /\ resp \in BatchListings
    /\ InitRun

SpecBatch == InitBatch /\ [][MainNext]_vars

(***************************************************************************)
(* get_file_list on its own: one call, for every answer of the listing API *)
(* with up to MaxSiblings siblings.                                        *)
(***************************************************************************)
ListerNames == {NameA, NameB, NameDirA, NameGit, NameDirGit, NameGitBak, NameNoDot}

ListerSiblings == SeqsUpTo({Sib(n) : n \in ListerNames} \cup {BadSib}, MaxSiblings)

ListerResponses ==
    {ListingOk(q) : q \in ListerSiblings}
    \cup {[kind |-> "response", status_code |-> c, json_ok |-> TRUE, siblings |-> q] :
            c \in {301, 404, 500}, q \in {<<>>, <<Sib(NameA)>>, <<Sib(NameA), Sib(NameGit)>>}}
    \cup {[kind |-> "response", status_code |-> 200, json_ok |-> FALSE, siblings |-> <<>>],
          [kind |-> "exception"]}

InitLister ==
    /\ resp \in ListerResponses
    /\ file_list = <<>>
    /\ pc = "start"
    /\ index = 0
    /\ local_path = <<>>
    /\ fs = {}
    /\ successful_uploads = <<>>
    /\ disk = NoFile
    /\ srv_resp = NoResponse
    /\ server = ""
    /\ upload_info = NoUploadInfo
    /\ handle = <<>>
    /\ upload_ret = FALSE
    /\ result = <<>>
    /\ uploads_at_call = <<>>
    /\ clock = 0
    /\ trace = <<>>
    /\ http_out = NoRequest

NextLister == Listing

SpecLister == InitLister /\ [][NextLister]_vars

(***************************************************************************)
(* get_best_server on its own: one call, made by the upload of a file      *)
(* a.txt that main has listed and downloaded, for every answer of the      *)
(* server-list API with up to MaxServers servers.                          *)
(***************************************************************************)
ServerDicts ==
    {[name |-> "a", score |-> 5], [name |-> "b", score |-> 9],
     [name |-> "c", score |-> 9], [name |-> "d"], [name |-> "e", score |-> -1],
     [score |-> 9], [name |-> "", score |-> 7]}

SelectorResponses ==
    {ServersOk(q) : q \in SeqsUpTo(ServerDicts, MaxServers)} \cup ServerFailures

InitSelector ==
    /\ resp = ListingOk(<<Sib(NameA)>>)
    /\ file_list = <<NameA>>
    /\ pc = "upload"
    /\ index = 1
    /\ local_path = LocalFilename(NameA)
    /\ fs = {LocalFilename(NameA)}
    /\ successful_uploads = <<>>
    /\ disk = NoFile
    /\ srv_resp = NoResponse
    /\ server = ""
    /\ upload_info = NoUploadInfo
    /\ handle = <<>>
    /\ upload_ret = FALSE
    /\ result = <<>>
    /\ uploads_at_call = <<>>
    /\ clock = 0
    /\ trace = <<[op |-> "download", i |-> 1, ok |-> TRUE, at |-> 0]>>
    /\ http_out = NoRequest

NextSelector == SelectServerFrom(SelectorResponses)

SpecSelector == InitSelector /\ [][NextSelector]_vars

(***************************************************************************)
(* Vocabulary of the properties.                                           *)
(***************************************************************************)
Last(q) == q[Len(q)]

IsPrefix(p, q) == Len(p) <= Len(q) /\ SubSeq(q, 1, Len(p)) = p

Downloads == EventsOf("download")

HasEvent(op, i) == \E k \in 1..Len(trace) : trace[k].op = op /\ trace[k].i = i

HasEventWith(op, i, ok) ==
    \E k \in 1..Len(trace) : trace[k].op = op /\ trace[k].i = i /\ trace[k].ok = ok

CountEvents(op, i) ==
    Cardinality({k \in 1..Len(trace) : trace[k].op = op /\ trace[k].i = i})

\* the iteration of file i is over
IterationOver(i) == index > i \/ pc = "done"

\* the orchestrator is inside a call of upload_to_gofile
InUpload == pc \in {"post", "request", "append", "persist"}

\* the calls of upload_to_gofile that have returned True
SuccessfulReturns ==
    Cardinality({k \in 1..Len(trace) : trace[k].op = "upload" /\ trace[k].ok})

\* a listing answer that get_file_list reads to the end
WellFormedListing(r) ==
    /\ r.kind = "response"
    /\ r.status_code = 200
    /\ r.json_ok
    /\ \A i \in 1..Len(r.siblings) : "rfilename" \in DOMAIN r.siblings[i]

ExcludedIn(siblings) ==
    {i \in 1..Len(siblings) : EndsWith(siblings[i].rfilename, ExcludedSuffix)}

(***************************************************************************)
(* C1: in one run of main the downloads attempted are those of             *)
(* file_list[1], file_list[2], ... in this order, each once; no attempted  *)
(* name ends in '.gitattributes'; and when main is over, a listing of N    *)
(* siblings of which M end in the suffix has had exactly N-M attempts.     *)
(***************************************************************************)
C1_EachListedFileAttemptedOnce ==
    /\ \A k \in 1..Len(Downloads) : Downloads[k].i = k
    /\ \A k \in 1..Len(Downloads) : ~EndsWith(file_list[k], ExcludedSuffix)
    /\ pc = "loop" => Len(Downloads) = index - 1
    /\ pc \in {"done", "returned"} => Len(Downloads) = Len(file_list)
    /\ (pc \in {"done", "returned"} /\ WellFormedListing(resp)) =>
          Len(Downloads) = Len(resp.siblings) - Cardinality(ExcludedIn(resp.siblings))

C1_Witness ==
    /\ pc = "done"
    /\ resp.kind = "response"
    /\ resp.siblings = <<Sib(NameA), Sib(NameGit)>>
    /\ Len(Downloads) = 1
    /\ ~Downloads[1].ok

(***************************************************************************)
(* C2 as stated: when upload_to_gofile returns True for the remote name    *)
(* F, the ledger is one record longer than when the call began and the     *)
(* file field of its last record is F.                                     *)
(***************************************************************************)
C2_RecordNamesRemotePath ==
    (pc = "after_upload" /\ upload_ret) =>
        /\ Len(successful_uploads) = Len(uploads_at_call) + 1
        /\ Last(successful_uploads).file = file_list[index]

(***************************************************************************)
(* C2 amended: when upload_to_gofile returns True for the remote name F,   *)
(* the ledger is the ledger of when the call began with one record         *)
(* appended, and the file field of that record is the basename of F.       *)
(***************************************************************************)
C2_RecordNamesBasename ==
    (pc = "after_upload" /\ upload_ret) =>
        /\ Len(successful_uploads) = Len(uploads_at_call) + 1
        /\ IsPrefix(uploads_at_call, successful_uploads)
        /\ Last(successful_uploads).file = Basename(file_list[index])

C2_Witness ==
    /\ pc = "after_upload"
    /\ upload_ret
    /\ file_list[index] = NameDirA
    /\ Len(successful_uploads) = 2
    /\ Last(successful_uploads).file = NameA

(***************************************************************************)
(* C3 as stated: after a call of upload_to_gofile that returned True the   *)
(* file uploads_info.json holds the serialization of the whole ledger,     *)
(* and between the iterations of a run in which every call that appended a *)
(* record returned True the file holds the serialization of the ledger.    *)
(***************************************************************************)
EveryAppendReturnedTrue == Len(successful_uploads) = SuccessfulReturns

DiskIsLedger == disk = [exists |-> TRUE, content |-> JsonDump(successful_uploads)]

BetweenIterations == (pc = "loop" /\ index > 1) \/ pc = "done"

C3_DiskEqualsLedgerBetweenIterations ==
    /\ (pc = "after_upload" /\ upload_ret) => DiskIsLedger
    /\ (BetweenIterations /\ EveryAppendReturnedTrue) => DiskIsLedger

(***************************************************************************)
(* C3 amended: after a call of upload_to_gofile that returned True the     *)
(* file uploads_info.json holds the serialization of the whole ledger,     *)
(* and between the iterations of a run in which every call that appended a *)
(* record returned True, and at least one did, the file holds the          *)
(* serialization of the ledger.                                            *)
(***************************************************************************)
C3_DiskEqualsLedgerAfterSuccess ==
    /\ (pc = "after_upload" /\ upload_ret) => DiskIsLedger
    /\ (BetweenIterations /\ EveryAppendReturnedTrue /\ successful_uploads # <<>>)
          => DiskIsLedger

C3_Witness ==
    /\ pc = "done"
    /\ Len(successful_uploads) = 2
    /\ EveryAppendReturnedTrue
    /\ DiskIsLedger

(***************************************************************************)
(* C4: a file whose download and upload both succeeded has cleanup called  *)
(* once, on its local path, and when that call has removed the file        *)
(* without an OSError the local path does not exist.                       *)
(***************************************************************************)
C4_CleanupAfterSuccess ==
    /\ \A i \in 1..Len(file_list) :
         (IterationOver(i) /\ HasEventWith("download", i, TRUE)
             /\ HasEventWith("upload", i, TRUE)) => CountEvents("cleanup", i) = 1
    /\ (pc = "delay" /\ CountEvents("cleanup", index) = 1) =>
          /\ local_path = LocalFilename(file_list[index])
          /\ HasEventWith("cleanup", index, TRUE) => local_path \notin fs

C4_Witness ==
    /\ pc = "delay"
    /\ HasEventWith("download", index, TRUE)
    /\ HasEventWith("upload", index, TRUE)
    /\ HasEventWith("cleanup", index, TRUE)
    /\ local_path \notin fs

(***************************************************************************)
(* C5: a file whose download succeeded and whose upload returned False     *)
(* never has cleanup called, its local file exists when its iteration      *)
(* ends, and the next listed file is attempted.                            *)
(***************************************************************************)
C5_FailedUploadLeavesFile ==
    \A i \in 1..Len(file_list) :
        HasEventWith("upload", i, FALSE) =>
            /\ ~HasEvent("cleanup", i)
            /\ (pc \in {"after_upload", "delay"} /\ index = i) =>
                  /\ local_path = LocalFilename(file_list[i])
                  /\ local_path \in fs
            /\ (i < Len(file_list) /\ (index > i + 1 \/ pc = "done")) =>
                  HasEvent("download", i + 1)

C5_Witness ==
    /\ pc = "done"
    /\ Len(file_list) = 2
    /\ HasEventWith("upload", 1, FALSE)
    /\ HasEvent("download", 2)
    /\ LocalFilename(file_list[1]) \in fs

(***************************************************************************)
(* C6: a GET /uploads answered while no upload is in progress returns the  *)
(* ledger, which holds one record per call of upload_to_gofile that has    *)
(* returned True, each with the values of its response.                    *)
(***************************************************************************)
C6_UploadsAreTheSuccessfulUploads ==
    (http_out.path = "/uploads" /\ http_out.uploads = successful_uploads
        /\ ~InUpload) => Len(http_out.uploads) = SuccessfulReturns

(***************************************************************************)
(* C7: every record that GET /uploads has returned, and every record of    *)
(* the ledger at any moment of an upload, has its four fields set, and the *)
(* records returned are records of the ledger: a record enters the ledger  *)
(* whole and does not change afterwards.                                   *)
(***************************************************************************)
Complete(r) ==
    /\ DOMAIN r = {"file", "folder_id", "download_page", "guest_token"}
    /\ r.file # <<>>
    /\ Unset \notin {r.folder_id, r.download_page, r.guest_token}

C7_NoPartialRecordVisible ==
    /\ \A k \in 1..Len(successful_uploads) : Complete(successful_uploads[k])
    /\ http_out.path = "/uploads" =>
          /\ \A k \in 1..Len(http_out.uploads) : Complete(http_out.uploads[k])
          /\ IsPrefix(http_out.uploads, successful_uploads)
    /\ pc = "persist" => Last(successful_uploads) = upload_info

C7_Witness ==
    /\ pc = "persist"
    /\ http_out.path = "/uploads"
    /\ http_out.uploads = successful_uploads
    /\ Len(http_out.uploads) = Len(uploads_at_call) + 1

(***************************************************************************)
(* C8: for a 200 answer whose N siblings all name a file, M of them ending *)
(* in '.gitattributes', get_file_list returns N-M names: the names of the  *)
(* other siblings, in the order of the answer.                             *)
(***************************************************************************)
\* how many siblings up to the i-th are not excluded
Rank(siblings, i) == Cardinality((1..i) \ ExcludedIn(siblings))

C8_ListerFiltersInOrder ==
    (pc # "start" /\ WellFormedListing(resp)) =>
        /\ Len(file_list) = Len(resp.siblings) - Cardinality(ExcludedIn(resp.siblings))
        /\ \A i \in (1..Len(resp.siblings)) \ ExcludedIn(resp.siblings) :
              file_list[Rank(resp.siblings, i)] = resp.siblings[i].rfilename

C8_Witness ==
    /\ pc # "start"
    /\ WellFormedListing(resp)
    /\ resp.siblings = <<Sib(NameGitBak), Sib(NameDirGit), Sib(NameA)>>
    /\ file_list = <<NameGitBak, NameA>>

(***************************************************************************)
(* C9: for an answer with a status other than 200, and for an exception of *)
(* the request or of the parsing, get_file_list returns the empty list and *)
(* raises nothing to main.                                                 *)
(***************************************************************************)
C9_ListerFailureIsEmpty ==
    (pc # "start" /\ ~WellFormedListing(resp)) =>
        /\ file_list = <<>>
        /\ pc = "returned"

C9_Witness ==
    /\ pc = "returned"
    /\ resp.kind = "response"
    /\ resp.status_code = 404
    /\ resp.siblings = <<Sib(NameA), Sib(NameGit)>>
    /\ file_list = <<>>

(***************************************************************************)
(* C10: for an 'ok' server list with at least one candidate, all of them   *)
(* named, get_best_server returns the name of the first candidate whose    *)
(* score (0 when it has none) is the maximum.                              *)
(***************************************************************************)
SuccessfulServerList(r) ==
    /\ r.kind = "response"
    /\ r.http_ok
    /\ r.json_ok
    /\ r.status = "ok"
    /\ r.servers # <<>>
    /\ \A i \in 1..Len(r.servers) : DictGet(r.servers[i], "name", "") # ""

IsMaxScore(servers, i) ==
    \A j \in 1..Len(servers) : ScoreOf(servers[j]) <= ScoreOf(servers[i])

C10_BestServerIsFirstMaximum ==
    (pc = "post" /\ SuccessfulServerList(srv_resp)) =>
        \E i \in 1..Len(srv_resp.servers) :
            /\ IsMaxScore(srv_resp.servers, i)
            /\ \A j \in 1..(i - 1) : ~IsMaxScore(srv_resp.servers, j)
            /\ server = srv_resp.servers[i].name

C10_Witness ==
    /\ pc = "post"
    /\ SuccessfulServerList(srv_resp)
    /\ srv_resp.servers =
          <<[name |-> "a", score |-> 5], [name |-> "c", score |-> 9],
            [name |-> "b", score |-> 9]>>
    /\ server = "c"

(***************************************************************************)
(* C11: when the server selection fails (the request raises, the status is *)
(* not 2xx, the body is not JSON, its status is not 'ok', the server list  *)
(* is empty or its best candidate has no name) get_best_server returns     *)
(* 'store1' without raising, and upload_to_gofile goes on to post the file *)
(* to that server.                                                         *)
(***************************************************************************)
BestCandidateUnnamed(servers) ==
    \E i \in 1..Len(servers) :
        /\ IsMaxScore(servers, i)
        /\ \A j \in 1..(i - 1) : ~IsMaxScore(servers, j)
        /\ DictGet(servers[i], "name", "") = ""

SelectionFailure(r) ==
    \/ r.kind = "exception"
    \/ ~r.http_ok
    \/ ~r.json_ok
    \/ r.status # "ok"
    \/ r.servers = <<>>
    \/ BestCandidateUnnamed(r.servers)

DownloadFailsStep ==
    /\ pc = "loop"
    /\ Len(trace') = Len(trace) + 1
    /\ Last(trace').op = "download"
    /\ ~Last(trace').ok

C12_FailedDownloadSkipsFile ==
    /\ [](\A i \in 1..Len(file_list) :
             HasEventWith("download", i, FALSE) =>
                 /\ ~HasEvent("select", i)
                 /\ ~HasEvent("upload", i)
                 /\ ~HasEvent("cleanup", i)
                 /\ IterationOver(i)
                 /\ (i < Len(file_list) /\ (index > i + 1 \/ pc = "done")) =>
                       HasEvent("download", i + 1))
    /\ [][DownloadFailsStep =>
             /\ successful_uploads' = successful_uploads
             /\ disk' = disk
             /\ index' = index + 1
             /\ pc' = IF index < Len(file_list) THEN "loop" ELSE "done"]_vars

C12_Witness ==
    /\ pc = "done"
    /\ Len(file_list) = 2
    /\ HasEventWith("download", 1, FALSE)
    /\ ~HasEvent("upload", 1)
    /\ HasEventWith("download", 2, TRUE)
    /\ Len(successful_uploads) = 1

(***************************************************************************)
(* C13: when get_file_list returns the empty list main returns at once:    *)
(* it makes no download, server selection, upload or cleanup, and the      *)
(* ledger, uploads_info.json and the local files stay as they were when    *)
(* the run began.                                                          *)
(***************************************************************************)
C13_EmptyListingEndsRun ==
    /\ []((pc # "start" /\ file_list = <<>>) =>
             /\ pc = "returned"
             /\ trace = <<>>
             /\ successful_uploads = <<>>
             /\ fs = {}
             /\ clock = 0)
    /\ [][((pc = "start" /\ pc' # "start" /\ file_list' = <<>>) \/ pc = "returned") =>
             /\ disk' = disk
             /\ successful_uploads' = successful_uploads
             /\ pc' = "returned"]_vars

C13_Witness ==
    /\ pc = "returned"
    /\ resp.kind = "response"
    /\ resp.siblings = <<Sib(NameGit), Sib(NameGit)>>
    /\ disk.exists
    /\ http_out.path = "/uploads"

(***************************************************************************)
(* C14: if every call main makes returns, main leaves the transfer loop    *)
(* (or returns before it, on an empty listing), and when it is past the    *)
(* loop every listed file has had its download attempted, whatever failed  *)
(* or raised on the files before it.                                       *)
(***************************************************************************)
C14_LoopTerminatesAfterAllFiles ==
    /\ <>(pc \in {"done", "returned"})
    /\ [](pc = "done" =>
             /\ index = Len(file_list) + 1
             /\ \A i \in 1..Len(file_list) : CountEvents("download", i) = 1)

C14_Witness ==
    /\ pc = "done"
    /\ Len(file_list) = 2
    /\ HasEventWith("download", 1, FALSE)
    /\ local_path = <<>>
    /\ HasEventWith("download", 2, FALSE)
    /\ file_list[2] # file_list[1]
    /\ fs = {LocalFilename(file_list[1])}

(***************************************************************************)
(* C15: the iteration of a file ends with one delay of                     *)
(* TIMEOUT_BETWEEN_UPLOADS seconds exactly when the download of the file   *)
(* succeeded and the file is not the last of the list; there is no delay   *)
(* after the last file nor after a file whose download failed.             *)
(***************************************************************************)
C15_DelayAfterInitiatedNonFinalFile ==
    /\ \A i \in 1..Len(file_list) :
         /\ CountEvents("sleep", i) <= 1
         /\ HasEvent("sleep", i) => IterationOver(i)
         /\ IterationOver(i) =>
               (HasEvent("sleep", i) <=>
                   (HasEventWith("download", i, TRUE) /\ i < Len(file_list)))
    /\ clock = TIMEOUT_BETWEEN_UPLOADS * Len(EventsOf("sleep"))
    /\ \A k \in 1..Len(trace) :
         trace[k].op = "sleep" =>
             /\ k > 1
             /\ trace[k - 1].i = trace[k].i
             /\ trace[k - 1].op \in {"upload", "cleanup"}

C15_Witness ==
    /\ pc = "done"
    /\ Len(file_list) = 2
    /\ HasEventWith("upload", 1, FALSE)
    /\ HasEvent("sleep", 1)
    /\ HasEventWith("upload", 2, TRUE)
    /\ ~HasEvent("sleep", 2)
    /\ clock = TIMEOUT_BETWEEN_UPLOADS

(***************************************************************************)
(* C16: outside a call of upload_to_gofile the ledger has as many records  *)
(* as calls have returned True, and a call that has returned False has     *)
(* left the ledger as it was when the call began.                          *)
(***************************************************************************)
C16_OneRecordPerSuccessfulReturn ==
    /\ ~InUpload => Len(successful_uploads) = SuccessfulReturns
    /\ (pc = "after_upload" /\ ~upload_ret) => successful_uploads = uploads_at_call

(***************************************************************************)
(* C17: every step leaves the ledger as it is or appends one record at its *)
(* end, and only the append of upload_to_gofile does the latter; a step of *)
(* the status endpoint never changes the ledger.  Hence the ledger at the  *)
(* start of a call, and every ledger GET /uploads has returned, is a       *)
(* prefix of the present one.                                              *)
(***************************************************************************)
C17_LedgerIsAppendOnly ==
    /\ [][/\ IsPrefix(successful_uploads, successful_uploads')
          /\ Len(successful_uploads') <= Len(successful_uploads) + 1
          /\ successful_uploads' # successful_uploads =>
                /\ pc = "append"
                /\ Last(successful_uploads') = upload_info
          /\ http_out' # http_out => successful_uploads' = successful_uploads]_vars
    /\ [](IsPrefix(uploads_at_call, successful_uploads))
    /\ [](http_out.path = "/uploads" => IsPrefix(http_out.uploads, successful_uploads))

C17_Witness ==
    /\ Len(successful_uploads) = 2
    /\ successful_uploads[1] # successful_uploads[2]
    /\ http_out.path = "/uploads"
    /\ http_out.uploads = <<successful_uploads[1]>>

(***************************************************************************)
(* C18: the local file is open only inside a call of upload_to_gofile,     *)
(* from its open to its return, and it is the file being uploaded: when    *)
(* the call has returned, by any path, and so whenever cleanup runs, no    *)
(* local file is open.                                                     *)
(***************************************************************************)
C18_HandleClosedOnReturn ==
    /\ handle # <<>> => (pc \in {"request", "append", "persist"} /\ handle = local_path)
    /\ pc \in {"request", "append", "persist"} => handle = local_path
    /\ pc \in {"after_upload", "delay", "loop", "done"} => handle = <<>>

C18_Witness ==
    /\ pc = "after_upload"
    /\ ~upload_ret
    /\ Len(successful_uploads) = Len(uploads_at_call)
    /\ HasEventWith("upload", index, FALSE)
    /\ handle = <<>>
    /\ local_path \in fs

(***************************************************************************)
(* C19 as stated: when main is past the loop, the local file of every      *)
(* listed file whose download succeeded and whose upload returned False    *)
(* exists, whatever the names of the list.                                 *)
(***************************************************************************)
Leaked(i) == HasEventWith("download", i, TRUE) /\ HasEventWith("upload", i, FALSE)

C19_LeakedFilesExistAtDone ==
    pc = "done" =>
        \A i \in 1..Len(file_list) : Leaked(i) => LocalFilename(file_list[i]) \in fs

(***************************************************************************)
(* C19 amended: when main is past the loop, the local file of every listed *)
(* file whose download succeeded and whose upload returned False exists,   *)
(* unless a later file of the list with the same basename was removed by   *)
(* its own cleanup.                                                        *)
(***************************************************************************)
RemovedByLaterFile(i) ==
    \E j \in (i + 1)..Len(file_list) :
        /\ Basename(file_list[j]) = Basename(file_list[i])
        /\ HasEventWith("cleanup", j, TRUE)

C19_LeakedFilesExistUnlessShared ==
    pc = "done" =>
        \A i \in 1..Len(file_list) :
            (Leaked(i) /\ ~RemovedByLaterFile(i)) => LocalFilename(file_list[i]) \in fs

C19_Witness ==
    /\ pc = "done"
    /\ file_list = <<NameA, NameB>>
    /\ Leaked(1)
    /\ HasEventWith("cleanup", 2, TRUE)
    /\ fs = {LocalFilename(NameA)}

(***************************************************************************)
(* C20: between the return of one call of upload_to_gofile and the start   *)
(* of the next one main has slept at least TIMEOUT_BETWEEN_UPLOADS         *)
(* seconds, whatever downloads or uploads failed in between.               *)
(***************************************************************************)
\* the positions in the history of the events of one kind
PositionsOf(op) == {k \in 1..Len(trace) : trace[k].op = op}

====
